---- MODULE Spec2Model ----
(***************************************************************************)
(* Model of the checkout flow of kira-frontend: the CheckoutComponent      *)
(* state machine (src/src/components/checkout/checkout.component.ts), the  *)
(* form validators it configures, the Luhn validator                       *)
(* (src/src/services/validation.service.ts), the tokenizer stub            *)
(* (src/unnamed/part_005) and the gateway (src/src/services/api.service.ts)*)
(* seen as an asynchronous collaborator.                                   *)
(*                                                                         *)
(* One component instance is modelled.  JavaScript runs every handler to   *)
(* completion, so each handler (and each continuation after an await or an *)
(* HTTP response) is one atomic action.  Strings the code inspects         *)
(* character by character are sequences of one-character strings.         *)
(***************************************************************************)
EXTENDS Integers, Sequences, FiniteSets, TLC

(* ---------------------------------------------------------------- bounds *)

\* How many onSubmit() calls that pass the validity guard a run may make.
MaxSubmits == 2

\* How many link lookups (loadLink calls) a run may make.
MaxLookups == 2

\* How many router.navigate calls search() may make in a run.
MaxNavigations == 2

\* How long a string typed into an input element of the payment form may get
\* (longer strings are pasted whole).
MaxInputLen == 3

\* How many createToken calls are made on the tokenizer service on its own.
MaxTokenCalls == 3

\* How long the string given to the Luhn validator on its own may get.
MaxValueLen == 3

(* ------------------------------------------------------------ JS values *)

\* null / undefined of a signal or of a JSON field.
NULL == [null |-> TRUE]

Digits == {"0", "1", "2", "3", "4", "5", "6", "7", "8", "9"}

\* Characters matched by the regular expression class \s that the model uses.
Whitespace == {" ", "\t"}

\* parseInt(c, 10) of one digit character.
DigitVal(c) ==
  CASE c = "0" -> 0 [] c = "1" -> 1 [] c = "2" -> 2 [] c = "3" -> 3
    [] c = "4" -> 4 [] c = "5" -> 5 [] c = "6" -> 6 [] c = "7" -> 7
    [] c = "8" -> 8 [] c = "9" -> 9

\* A replace that removes nothing.
Strip_Nothing(s, drop) == s

\* s.replace(/<class>/g, ''): the characters of s that are not in drop.
RECURSIVE Strip(_, _)
Strip(s, drop) ==
  IF s = <<>> THEN <<>>
  ELSE IF Head(s) \in drop THEN Strip(Tail(s), drop)
       ELSE <<Head(s)>> \o Strip(Tail(s), drop)

\* A replace that removes nothing.
OnlyDigits_Nothing(s) == s

\* s.replace(/\D/g, ''): the digits of s, in order.
RECURSIVE OnlyDigits(_)
OnlyDigits(s) ==
  IF s = <<>> THEN <<>>
  ELSE IF Head(s) \in Digits THEN <<Head(s)>> \o OnlyDigits(Tail(s))
       ELSE OnlyDigits(Tail(s))

\* s.substring(0, n)
Substring0(s, n) == SubSeq(s, 1, IF Len(s) < n THEN Len(s) ELSE n)

\* A trim that removes nothing.
Trim_Nothing(s) == s

\* s.trim() for the whitespace of the model.
RECURSIVE TrimLeft(_)
TrimLeft(s) ==
  IF s # <<>> /\ Head(s) \in Whitespace THEN TrimLeft(Tail(s)) ELSE s

RECURSIVE TrimRight(_)
TrimRight(s) ==
  IF s # <<>> /\ s[Len(s)] \in Whitespace
  THEN TrimRight(SubSeq(s, 1, Len(s) - 1)) ELSE s

Trim(s) == TrimRight(TrimLeft(s))

(* ------------------------------------------------------- Luhn validator *)

\* A loop that reduces a doubled digit above 9 by 10 instead of 9.
RECURSIVE LuhnSum_ReducesByTen(_, _, _)
LuhnSum_ReducesByTen(value, i, shouldDouble) ==
  IF i < 1 THEN 0
  ELSE LET d == DigitVal(value[i])
           digit == IF shouldDouble
                    THEN (IF d * 2 > 9 THEN d * 2 - 10 ELSE d * 2)
                    ELSE d
       IN digit + LuhnSum_ReducesByTen(value, i - 1, ~shouldDouble)

\* A loop that doubles every second digit but never reduces it by 9.
RECURSIVE LuhnSum_NoReduction(_, _, _)
LuhnSum_NoReduction(value, i, shouldDouble) ==
  IF i < 1 THEN 0
  ELSE LET d == DigitVal(value[i])
       IN (IF shouldDouble THEN d * 2 ELSE d)
            + LuhnSum_NoReduction(value, i - 1, ~shouldDouble)

\* The loop of luhnValidator: digits right to left, every second one doubled
\* and reduced by 9 when the doubled value exceeds 9.
RECURSIVE LuhnSum(_, _, _)
LuhnSum(value, i, shouldDouble) ==
  IF i < 1 THEN 0
  ELSE LET d == DigitVal(value[i])
           digit == IF shouldDouble
                    THEN (IF d * 2 > 9 THEN d * 2 - 9 ELSE d * 2)
                    ELSE d
       IN digit + LuhnSum(value, i - 1, ~shouldDouble)

\* luhnValidator()(control): TRUE when the validator returns { luhn: true },
\* FALSE when it returns null.
LuhnError(raw) ==
  IF raw = <<>> THEN FALSE
  ELSE LET value == Strip(raw, Whitespace)
       IN IF value = <<>> \/ \E i \in 1..Len(value) : value[i] \notin Digits
          THEN TRUE
          ELSE LuhnSum(value, Len(value), FALSE) % 10 # 0

\* What luhnValidator()(control) returns for a control holding the string raw:
\* null, or the errors object { luhn: true } of both of its error returns.
LuhnValidator(raw) == IF LuhnError(raw) THEN [luhn |-> TRUE] ELSE NULL

(* ------------------------------------------------------- form validators *)

\* Validators.required
RequiredError(v) == v = <<>>

\* Validators.minLength(n): an empty value is left to `required`.
MinLengthError(n, v) == v # <<>> /\ Len(v) < n

\* Validators.maxLength(n)
MaxLengthError(n, v) == Len(v) > n

\* /^(0[1-9]|1[0-2])\s?\/\s?([2-9][0-9])$/ on the characters after the month.
ExpiryTail(t) ==
  LET a == IF t # <<>> /\ Head(t) \in Whitespace THEN Tail(t) ELSE t
      b == IF a # <<>> /\ Head(a) = "/" THEN Tail(a) ELSE <<"!">>
      c == IF b # <<>> /\ Head(b) \in Whitespace THEN Tail(b) ELSE b
  IN /\ Len(c) = 2
     /\ c[1] \in (Digits \ {"0", "1"})
     /\ c[2] \in Digits

\* Validators.pattern of the expiryDate control; an empty value is left to
\* `required`.
ExpiryPatternError(v) ==
  /\ v # <<>>
  /\ ~ ( /\ Len(v) >= 2
         /\ \/ (v[1] = "0" /\ v[2] \in (Digits \ {"0"}))
            \/ (v[1] = "1" /\ v[2] \in {"0", "1", "2"})
         /\ ExpiryTail(SubSeq(v, 3, Len(v))) )

\* Validators.pattern(/^\d+$/) of the cvc control.
DigitsPatternError(v) == v # <<>> /\ \E i \in 1..Len(v) : v[i] \notin Digits

CardNumberMinLength == 16
CardNumberMaxLength == 19
CvcMinLength == 3
CvcMaxLength == 4
CardHolderMinLength == 3
SearchMinLength == 5

CardNumberValid(v) ==
  /\ ~RequiredError(v)
  /\ ~MinLengthError(CardNumberMinLength, v)
  /\ ~MaxLengthError(CardNumberMaxLength, v)
  /\ ~LuhnError(v)

ExpiryDateValid(v) == ~RequiredError(v) /\ ~ExpiryPatternError(v)

CvcValid(v) ==
  /\ ~RequiredError(v)
  /\ ~MinLengthError(CvcMinLength, v)
  /\ ~MaxLengthError(CvcMaxLength, v)
  /\ ~DigitsPatternError(v)

CardHolderValid(v) == ~RequiredError(v) /\ ~MinLengthError(CardHolderMinLength, v)

SearchControlValid(v) == ~RequiredError(v) /\ ~MinLengthError(SearchMinLength, v)

(* ------------------------------------------------------ input formatters *)

\* value.replace(/(\d{4})/g, '$1 '): a space after every complete group of 4.
RECURSIVE GroupBy4(_)
GroupBy4(d) ==
  IF Len(d) < 4 THEN d
  ELSE SubSeq(d, 1, 4) \o <<" ">> \o GroupBy4(SubSeq(d, 5, Len(d)))

\* The value formatCardNumber writes into the cardNumber control.
FormatCardNumberValue(input) == Trim(GroupBy4(Substring0(OnlyDigits(input), 16)))

\* A formatter that writes the separator as soon as the month is complete.
FormatExpiryDateValue_EagerSeparator(input) ==
  LET value == Substring0(OnlyDigits(input), 4)
  IN IF Len(value) >= 2
     THEN SubSeq(value, 1, 2) \o <<" ", "/", " ">> \o SubSeq(value, 3, Len(value))
     ELSE value

\* The value formatExpiryDate writes into the expiryDate control.
FormatExpiryDateValue(input) ==
  LET value == Substring0(OnlyDigits(input), 4)
  IN IF Len(value) > 2
     THEN SubSeq(value, 1, 2) \o <<" ", "/", " ">> \o SubSeq(value, 3, Len(value))
     ELSE value

(* ------------------------------------------------------------ the world *)

\* Ids of the payment links the gateway knows; any lookup may also fail
\* (not found, or a transport error).
IdA == <<"l", "n", "k", "_", "A">>
IdB == <<"l", "n", "k", "_", "B">>
LinkIds == {IdA, IdB}

\* The amounts of the two links, in thousandths of a dollar: 100 and 5.555
\* for the first, 1 and 0.005 for the second.
AmountUsdOf(id) == IF id = IdA THEN 100000 ELSE 1000
TotalFeesUsdOf(id) == IF id = IdA THEN 5555 ELSE 5

\* The PaymentLinkWithPreviewResponse the gateway returns for an id.
LinkOf(id) ==
  [id |-> id,
   amountUsd |-> AmountUsdOf(id),
   feePreview |-> [totalFeesUsd |-> TotalFeesUsdOf(id)]]

\* What the user may enter in the card-number field (the template routes the
\* input event through formatCardNumber).
ValidCard == <<"4","5","3","2","0","1","5","1","1","2","8","3","0","3","6","6">>
CardInputs == {ValidCard, <<"4", "1", "1", "1">>}

\* What the user may enter in the expiry field (through formatExpiryDate).
ExpiryInputs == {<<"1", "2", "2", "5">>}

CvcInputs == {<<"1", "2", "3">>}

\* The initial cardholder name of the form (its accented letter written in
\* ASCII) and a name that is too short.
InitialCardHolder == <<"J", "u", "a", "n", " ", "P", "e", "r", "e", "z">>
CardHolderInputs == {InitialCardHolder, <<"a", "b">>}

\* What the user may type into the search field.
SearchInputs ==
  {<<"a", "b", "c">>, <<" ">> \o IdB, <<" ", " ", " ", " ", " ">>}

\* Result statuses the gateway may answer with.
ResultStatuses == {"COMPLETED", "FAILED"}

\* error.error of an HttpErrorResponse: no body, a body whose message is a
\* string, a body whose message is not a string.
ErrorBodies ==
  { [kind |-> "none"],
    [kind |-> "object", messageType |-> "string", message |-> "Card declined"],
    [kind |-> "object", messageType |-> "number", message |-> "402"] }

GenericPaymentMessage == "We couldn't process your payment at this time. Please try again."
GenericPreparationMessage == "An unexpected error occurred while preparing the payment. Please try again."

(* ---------------------------------------------------------------- state *)

VARIABLES
  status,          \* signal status
  paymentLink,     \* signal paymentLink: NULL or a link
  paymentResult,   \* signal paymentResult: NULL or a ProcessPaymentResponse
  errorMessage,    \* signal errorMessage: NULL or [text |-> string]
  formDisabled,    \* paymentForm.disabled
  formTouched,     \* paymentForm.markAllAsTouched() has run
  cardNumber,      \* paymentForm.controls.cardNumber.value
  expiryDate,      \* paymentForm.controls.expiryDate.value
  cvc,             \* paymentForm.controls.cvc.value
  cardHolder,      \* paymentForm.controls.cardHolder.value
  searchValue,     \* searchControl.value
  searchTouched,   \* searchControl.touched
  routed,          \* route.params has emitted at least once
  routeId,         \* params['id'] of the last emission (<<>> when absent)
  navTo,           \* the link ids of the router.navigate calls so far, in
                   \* order
  lookups,         \* getPaymentLink requests awaiting their response:
                   \* for each id, how many
  tokenizing,      \* onSubmit() calls suspended at `await createToken`
  submitted,       \* processPayment requests awaiting their response
  sent,            \* every processPayment call made so far, in order
  keyLog,          \* every idempotency key generated so far, in order
  nSubmit,         \* onSubmit() calls that passed the validity guard
  nLookup,         \* loadLink() calls
  uuidCount,       \* calls of crypto.randomUUID() so far
  wellFormed,      \* every onSubmit() that passed the guard so far was called
                   \* with valid field values and a loaded link
  last,            \* the last orchestrator step: its operation and, for
                   \* retry(), the status it was called in
  control,         \* a control luhnValidator() is attached to on its own:
                   \* [null |-> its value is null, value |-> its string]
  errors,          \* what the validator returned for the control's value
  lastInput,       \* the last input event a formatter handled, when it is
                   \* recorded: [target |-> the field, value |-> input.value]
  invokedWith,     \* when recorded: for each link id (<<>> for no link), how
                   \* many of the suspended onSubmit() calls were made
                   \* while paymentLink held that link
  tokenCalls,      \* the provider of every createToken call made on the
                   \* tokenizer service on its own, in order
  tokenResults     \* for each of these calls, NULL while its promise is
                   \* pending and [state, value] once it is settled

formVars == <<cardNumber, expiryDate, cvc, cardHolder>>
searchVars == <<searchValue, searchTouched, navTo>>
routeVars == <<routed, routeId>>
submitVars == <<tokenizing, submitted>>
logVars == <<sent, keyLog, uuidCount, wellFormed>>
validatorVars == <<control, errors>>
tokenizerVars == <<tokenCalls, tokenResults>>
serviceVars == <<validatorVars, tokenizerVars>>

vars == <<status, paymentLink, paymentResult, errorMessage, formDisabled,
          formTouched, cardNumber, expiryDate, cvc, cardHolder, searchValue,
          searchTouched, routed, routeId, navTo, lookups, tokenizing,
          submitted, sent, keyLog, nSubmit, nLookup, uuidCount, wellFormed,
          last, control, errors, lastInput, invokedWith, tokenCalls,
          tokenResults>>

Init ==
  /\ status = "INITIALIZING"
  /\ paymentLink = NULL
  /\ paymentResult = NULL
  /\ errorMessage = NULL
  /\ formDisabled = FALSE
  /\ formTouched = FALSE
  /\ cardNumber = <<>>
  /\ expiryDate = <<>>
  /\ cvc = <<>>
  /\ cardHolder = InitialCardHolder
  /\ searchValue = <<>>
  /\ searchTouched = FALSE
  /\ routed = FALSE
  /\ routeId = <<>>
  /\ navTo = <<>>
  /\ lookups = [id \in LinkIds |-> 0]
  /\ tokenizing = 0
  /\ submitted = {}
  /\ sent = <<>>
  /\ keyLog = <<>>
  /\ nSubmit = 0
  /\ nLookup = 0
  /\ uuidCount = 0
  /\ wellFormed = TRUE
  /\ last = [op |-> "init", from |-> "-"]
  /\ control = [null |-> FALSE, value |-> <<>>]
  /\ errors = NULL
  /\ lastInput = [target |-> "-", value |-> <<>>]
  /\ invokedWith = [id \in LinkIds \cup {<<>>} |-> 0]
  /\ tokenCalls = <<>>
  /\ tokenResults = <<>>

\* (amountUsd + totalFeesUsd) * 100 is computed on IEEE-754 doubles.  For the
\* amounts of the model the computed double is the exact product
\* (100 + 5.555 gives 105.555, times 100 gives 10555.5) or lies just below it
\* (1 + 0.005 gives 1.005, times 100 gives 100.49999999999999): 0 and -1.
DoubleError(amountUsd, totalFeesUsd) ==
  CASE amountUsd = 100000 /\ totalFeesUsd = 5555 -> 0
    [] amountUsd = 1000 /\ totalFeesUsd = 5 -> -1

\* Math.round(x) for x >= 0 given as tenths (x = tenths / 10, moved by a tiny
\* amount in the direction of err): the nearest integer, a tie going up.
MathRound(tenths, err) ==
  LET q == tenths \div 10
      r == tenths % 10
  IN IF r > 5 \/ (r = 5 /\ err >= 0) THEN q + 1 ELSE q

\* The computed signal totalAmount, in cents.
TotalAmount ==
  IF paymentLink = NULL THEN 0
  ELSE LET amountUsd == paymentLink.amountUsd
           totalFeesUsd == paymentLink.feePreview.totalFeesUsd
       IN MathRound(amountUsd + totalFeesUsd,
                    DoubleError(amountUsd, totalFeesUsd))

\* The four controls pass their validators.
FieldsValid ==
  /\ CardNumberValid(cardNumber)
  /\ ExpiryDateValid(expiryDate)
  /\ CvcValid(cvc)
  /\ CardHolderValid(cardHolder)

\* paymentForm.invalid: a disabled form group has status DISABLED, which is
\* neither VALID nor INVALID, so `invalid` is false whatever the values are.
PaymentFormInvalid == ~formDisabled /\ ~FieldsValid

Step(op) == [op |-> op, from |-> "-"]

(* ------------------------------------------------------- route and lookup *)

\* loadLink(id), up to the return of the call: the request is outstanding.
LoadLink(id) ==
  /\ nLookup < MaxLookups
  /\ status' = "LOADING_LINK"
  /\ nLookup' = nLookup + 1
  /\ lookups' = [lookups EXCEPT ![id] = @ + 1]

\* The subscriber of route.params in ngOnInit.  The first emission comes at
\* subscription; a later one only when the id of the links/:id route changes
\* (the `links` route has no parameter to change).
RouteParams(id) ==
  /\ \/ ~routed
     \/ routed /\ routeId # <<>> /\ id # <<>> /\ id # routeId
  /\ routed' = TRUE
  /\ routeId' = id
  /\ IF id # <<>>
     THEN LoadLink(id)
     ELSE status' = "AWAITING_INPUT" /\ UNCHANGED <<nLookup, lookups>>
  /\ last' = Step("route")
  /\ UNCHANGED <<serviceVars, lastInput, invokedWith>>
  /\ UNCHANGED <<paymentLink, paymentResult, errorMessage, formDisabled,
                 formTouched, formVars, searchVars, submitVars, logVars,
                 nSubmit>>

\* loadLink: the subscribe callback with the link the gateway returned for id.
LookupSucceeds(id) ==
  /\ lookups[id] > 0
  /\ lookups' = [lookups EXCEPT ![id] = @ - 1]
  /\ paymentLink' = LinkOf(id)
  /\ status' = "READY_TO_PAY"
  /\ last' = Step("lookupOk")
  /\ UNCHANGED <<serviceVars, lastInput, invokedWith>>
  /\ UNCHANGED <<paymentResult, errorMessage, formDisabled, formTouched,
                 formVars, searchVars, routeVars, submitVars, logVars,
                 nSubmit, nLookup>>

\* A catchError that leaves the search field as it was.
LookupFails_KeepsSearch(id) ==
  /\ lookups[id] > 0
  /\ lookups' = [lookups EXCEPT ![id] = @ - 1]
  /\ status' = "LINK_NOT_FOUND"
  /\ last' = Step("lookupFail")
  /\ UNCHANGED <<serviceVars, lastInput, invokedWith>>
  /\ UNCHANGED <<paymentLink, paymentResult, errorMessage, formDisabled,
                 formTouched, formVars, searchVars, routeVars,
                 submitVars, logVars, nSubmit, nLookup>>

\* A catchError that also discards the link loaded before.
LookupFails_ClearsLink(id) ==
  /\ lookups[id] > 0
  /\ lookups' = [lookups EXCEPT ![id] = @ - 1]
  /\ status' = "LINK_NOT_FOUND"
  /\ searchValue' = id
  /\ paymentLink' = NULL
  /\ last' = Step("lookupFail")
  /\ UNCHANGED <<serviceVars, lastInput, invokedWith>>
  /\ UNCHANGED <<paymentResult, errorMessage, formDisabled,
                 formTouched, formVars, searchTouched, navTo, routeVars,
                 submitVars, logVars, nSubmit, nLookup>>

\* loadLink: catchError, then the subscribe callback with null.
LookupFails(id) ==
  /\ lookups[id] > 0
  /\ lookups' = [lookups EXCEPT ![id] = @ - 1]
  /\ status' = "LINK_NOT_FOUND"
  /\ searchValue' = id
  /\ last' = Step("lookupFail")
  /\ UNCHANGED <<serviceVars, lastInput, invokedWith>>
  /\ UNCHANGED <<paymentLink, paymentResult, errorMessage, formDisabled,
                 formTouched, formVars, searchTouched, navTo, routeVars,
                 submitVars, logVars, nSubmit, nLookup>>

\* search()
Search ==
  /\ routed
  /\ IF ~SearchControlValid(searchValue)
     THEN searchTouched' = TRUE /\ UNCHANGED navTo
     ELSE LET linkId == Trim(searchValue)
          IN /\ Len(navTo) < MaxNavigations
             /\ navTo' = IF linkId # <<>> THEN Append(navTo, linkId) ELSE navTo
             /\ UNCHANGED searchTouched
  /\ last' = Step("search")
  /\ UNCHANGED <<serviceVars, lastInput, invokedWith>>
  /\ UNCHANGED <<status, paymentLink, paymentResult, errorMessage,
                 formDisabled, formTouched, formVars, searchValue, routeVars,
                 lookups, submitVars, logVars, nSubmit, nLookup>>

(* ------------------------------------------------------------ submission *)

\* How many onSubmit() calls have not yet handled their outcome.
InFlight == tokenizing + Cardinality(submitted)

\* onSubmit(), up to the await of createToken('STRIPE').  Nothing is captured
\* before the await, so the suspended calls differ in nothing.
OnSubmit ==
  /\ routed
  /\ IF PaymentFormInvalid
     THEN /\ formTouched' = TRUE
          /\ UNCHANGED <<status, formDisabled, errorMessage, tokenizing,
                         nSubmit, wellFormed>>
     ELSE /\ nSubmit < MaxSubmits
          /\ status' = "PROCESSING_PAYMENT"
          /\ formDisabled' = TRUE
          /\ errorMessage' = NULL
          /\ nSubmit' = nSubmit + 1
          /\ tokenizing' = tokenizing + 1
          /\ wellFormed' = (wellFormed /\ FieldsValid /\ paymentLink # NULL)
          /\ UNCHANGED formTouched
  /\ last' = Step("onSubmit")
  /\ UNCHANGED <<serviceVars, lastInput>>
  /\ UNCHANGED <<paymentLink, paymentResult, formVars, searchVars, routeVars,
                 lookups, submitted, sent, keyLog, uuidCount, nLookup>>

\* crypto.randomUUID(): a value no other call returns.  The model names the
\* value by the ordinal of the call that produced it.
RandomUUID(call) == call

\* A token that carries the provider only.
CreateToken_NoUuid(psp, call) ==
  [prefix |-> "tok_mock_",
   psp |-> IF psp = "STRIPE" THEN "stripe" ELSE "adyen",
   uuid |-> 0]

\* createToken(psp): `tok_mock_${psp.toLowerCase()}_${crypto.randomUUID()}`.
CreateToken(psp, call) ==
  [prefix |-> "tok_mock_",
   psp |-> IF psp = "STRIPE" THEN "stripe" ELSE "adyen",
   uuid |-> RandomUUID(call)]

\* A key generated once for the component and reused by every attempt.
IdempotencyKey_PerSession(call) == RandomUUID(2)

\* const idempotencyKey = crypto.randomUUID(), the call after the token's.
IdempotencyKey(call) == RandomUUID(call)

\* this.paymentForm.getRawValue(): the four values, disabled form or not.
GetRawValue ==
  [cardNumber |-> cardNumber, expiryDate |-> expiryDate, cvc |-> cvc,
   cardHolder |-> cardHolder]

\* A request that also carries the entered card number as metadata.
RequestOf_WithCardNumber(cardToken, idempotencyKey, raw) ==
  [cardToken |-> cardToken,
   idempotencyKey |-> idempotencyKey,
   pspProvider |-> "STRIPE",
   metadata |-> [cardHolder |-> raw.cardHolder, cardNumber |-> raw.cardNumber]]

\* A request addressed to the other provider than the one tokenized with.
RequestOf_OtherProvider(cardToken, idempotencyKey, raw) ==
  [cardToken |-> cardToken,
   idempotencyKey |-> idempotencyKey,
   pspProvider |-> "ADYEN",
   metadata |-> [cardHolder |-> raw.cardHolder]]

\* The ProcessPaymentRequest built from the token, the key and the form's raw
\* value, of which only cardHolder is destructured.
RequestOf(cardToken, idempotencyKey, raw) ==
  [cardToken |-> cardToken,
   idempotencyKey |-> idempotencyKey,
   pspProvider |-> "STRIPE",
   metadata |-> [cardHolder |-> raw.cardHolder]]

\* The ProcessPaymentRequest onSubmit() builds.
PaymentRequest(cardToken, idempotencyKey) ==
  RequestOf(cardToken, idempotencyKey, GetRawValue)

\* The message of the Error thrown when no link id is available.
MissingLinkIdError == "Payment link ID is missing"

\* A catch block that shows the message of the exception it caught.
CatchMessage_EchoesError(err) == err

\* The message the catch block stores: the same for every exception.
CatchMessage(err) == GenericPreparationMessage

\* A catch block that forgets to enable the form.
DisabledAfterCatch_Omitted == formDisabled

\* paymentForm.disabled after the catch block's this.paymentForm.enable().
DisabledAfterCatch == FALSE

\* A pipe without the finalize operator: the form stays as it was.
DisabledAfterFinalize_Omitted == formDisabled

\* paymentForm.disabled after finalize(() => this.paymentForm.enable()).
DisabledAfterFinalize == FALSE

\* onSubmit(), from the resolution of createToken to the end of the try
\* block: the key, the link-id check, and then either the processPayment
\* call or the catch block.
TokenResolved ==
  /\ tokenizing > 0
  /\ tokenizing' = tokenizing - 1
  /\ LET cardToken == CreateToken("STRIPE", uuidCount + 1)
         idempotencyKey == IdempotencyKey(uuidCount + 2)
         call == [linkId |-> paymentLink.id,
                  request |-> PaymentRequest(cardToken, idempotencyKey)]
     IN /\ uuidCount' = uuidCount + 2
        /\ keyLog' = Append(keyLog, idempotencyKey)
        /\ IF paymentLink = NULL
           THEN /\ errorMessage' = [text |-> CatchMessage(MissingLinkIdError)]
                /\ status' = "ERROR_RETRYABLE"
                /\ formDisabled' = DisabledAfterCatch
                /\ UNCHANGED <<sent, submitted>>
           ELSE /\ sent' = Append(sent, call)
                /\ submitted' = submitted \cup {call}
                /\ UNCHANGED <<status, errorMessage, formDisabled>>
  /\ last' = Step("tokenResolved")
  /\ UNCHANGED <<serviceVars, lastInput>>
  /\ UNCHANGED <<paymentLink, paymentResult, formTouched, formVars,
                 searchVars, routeVars, lookups, nSubmit, nLookup, wellFormed>>

\* The ProcessPaymentResponse the gateway returns to call c with status st.
ResultOf(c, st) ==
  [transactionId |-> c.request.idempotencyKey, status |-> st,
   paymentLinkId |-> c.linkId]

\* A callback that leaves the payment in processing.
StatusForResponse_StillProcessing(response) == "PROCESSING_PAYMENT"

\* A callback that ignores the result's own status field.
StatusForResponse_IgnoresStatus(response) == "COMPLETED"

\* The status the subscribe callback of onSubmit() sets for a response.
StatusForResponse(response) ==
  IF response.status = "COMPLETED" THEN "COMPLETED" ELSE "FAILED"

\* onSubmit(): the subscribe callback with the gateway's response, then
\* finalize.
PaymentResponds(c, st) ==
  /\ c \in submitted
  /\ LET response == ResultOf(c, st)
     IN /\ paymentResult' = response
        /\ status' = StatusForResponse(response)
  /\ formDisabled' = DisabledAfterFinalize
  /\ submitted' = submitted \ {c}
  /\ last' = Step("response")
  /\ UNCHANGED <<serviceVars, lastInput, invokedWith>>
  /\ UNCHANGED <<paymentLink, errorMessage, formTouched, formVars, searchVars,
                 routeVars, lookups, tokenizing, logVars, nSubmit, nLookup>>

\* The message catchError stores for an error body.
MessageForError(apiError) ==
  IF apiError.kind = "object" /\ apiError.messageType = "string"
  THEN apiError.message
  ELSE GenericPaymentMessage

\* A catchError that stores the message and leaves status as it is.
PaymentErrors_KeepsStatus(c, apiError) ==
  /\ c \in submitted
  /\ errorMessage' = [text |-> MessageForError(apiError)]
  /\ formDisabled' = DisabledAfterFinalize
  /\ submitted' = submitted \ {c}
  /\ last' = Step("httpError")
  /\ UNCHANGED <<serviceVars, lastInput, invokedWith>>
  /\ UNCHANGED <<status, paymentLink, paymentResult, formTouched, formVars,
                 searchVars, routeVars, lookups, tokenizing, logVars, nSubmit,
                 nLookup>>

\* onSubmit(): catchError on an HttpErrorResponse, the subscribe callback
\* with null, then finalize.
PaymentErrors(c, apiError) ==
  /\ c \in submitted
  /\ errorMessage' = [text |-> MessageForError(apiError)]
  /\ status' = "ERROR_RETRYABLE"
  /\ formDisabled' = DisabledAfterFinalize
  /\ submitted' = submitted \ {c}
  /\ last' = Step("httpError")
  /\ UNCHANGED <<serviceVars, lastInput, invokedWith>>
  /\ UNCHANGED <<paymentLink, paymentResult, formTouched, formVars,
                 searchVars, routeVars, lookups, tokenizing, logVars, nSubmit,
                 nLookup>>

\* A retry() that starts the component over.
Retry_Reinitializes ==
  /\ routed
  /\ status' = "INITIALIZING"
  /\ paymentResult' = NULL
  /\ errorMessage' = NULL
  /\ last' = [op |-> "retry", from |-> status]
  /\ UNCHANGED <<serviceVars, lastInput, invokedWith>>
  /\ UNCHANGED <<paymentLink, formDisabled, formTouched, formVars, searchVars,
                 routeVars, lookups, submitVars, logVars, nSubmit, nLookup>>

\* A retry() that forgets to discard the previous result.
Retry_KeepsResult ==
  /\ routed
  /\ status' = "READY_TO_PAY"
  /\ errorMessage' = NULL
  /\ last' = [op |-> "retry", from |-> status]
  /\ UNCHANGED <<serviceVars, lastInput, invokedWith>>
  /\ UNCHANGED <<paymentLink, paymentResult, formDisabled, formTouched,
                 formVars, searchVars, routeVars, lookups, submitVars,
                 logVars, nSubmit, nLookup>>

\* retry()
Retry ==
  /\ routed
  /\ status' = "READY_TO_PAY"
  /\ paymentResult' = NULL
  /\ errorMessage' = NULL
  /\ last' = [op |-> "retry", from |-> status]
  /\ UNCHANGED <<serviceVars, lastInput, invokedWith>>
  /\ UNCHANGED <<paymentLink, formDisabled, formTouched, formVars, searchVars,
                 routeVars, lookups, submitVars, logVars, nSubmit, nLookup>>

(* ---------------------------------------------------------- form editing *)

orchestratorVars == <<status, paymentLink, paymentResult, errorMessage,
                      formDisabled, formTouched, routed, routeId, lookups,
                      tokenizing, submitted, sent, keyLog, nSubmit, nLookup,
                      uuidCount, wellFormed, last>>

\* formatCardNumber(event) on an input element holding `input`.
FormatCardNumber(input) ==
  /\ routed
  /\ cardNumber' = FormatCardNumberValue(input)
  /\ UNCHANGED <<serviceVars, invokedWith>>
  /\ UNCHANGED <<orchestratorVars, expiryDate, cvc, cardHolder, searchVars>>

\* formatExpiryDate(event) on an input element holding `input`.
FormatExpiryDate(input) ==
  /\ routed
  /\ expiryDate' = FormatExpiryDateValue(input)
  /\ UNCHANGED <<serviceVars, invokedWith>>
  /\ UNCHANGED <<orchestratorVars, cardNumber, cvc, cardHolder, searchVars>>

\* The user types into the cvc input (an enabled control only).
TypeCvc(v) ==
  /\ routed /\ ~formDisabled
  /\ cvc' = v
  /\ UNCHANGED <<serviceVars, lastInput, invokedWith>>
  /\ UNCHANGED <<orchestratorVars, cardNumber, expiryDate, cardHolder, searchVars>>

\* The user types into the cardHolder input (an enabled control only).
TypeCardHolder(v) ==
  /\ routed /\ ~formDisabled
  /\ cardHolder' = v
  /\ UNCHANGED <<serviceVars, lastInput, invokedWith>>
  /\ UNCHANGED <<orchestratorVars, cardNumber, expiryDate, cvc, searchVars>>

\* The user types into the search input.
TypeSearch(v) ==
  /\ routed
  /\ searchValue' = v
  /\ UNCHANGED <<serviceVars, lastInput, invokedWith>>
  /\ UNCHANGED <<orchestratorVars, formVars, searchTouched, navTo>>

(* --------------------------------------------------------- specification *)

\* The checkout flow: navigation, link lookup, filling the payment form,
\* submission, retry.
Next ==
  \/ \E id \in LinkIds \cup {<<>>} : RouteParams(id)
  \/ \E id \in LinkIds : LookupSucceeds(id)
  \/ \E id \in LinkIds : LookupFails(id)
  \/ OnSubmit /\ UNCHANGED invokedWith
  \/ TokenResolved /\ UNCHANGED invokedWith
  \/ \E c \in submitted, st \in ResultStatuses : PaymentResponds(c, st)
  \/ \E c \in submitted, e \in ErrorBodies : PaymentErrors(c, e)
  \/ Retry
  \/ \E v \in CardInputs : FormatCardNumber(v) /\ UNCHANGED lastInput
  \/ \E v \in ExpiryInputs : FormatExpiryDate(v) /\ UNCHANGED lastInput
  \/ \E v \in CvcInputs : TypeCvc(v)

Spec == Init /\ [][Next]_vars

(* ------------------------------------------- the tokenizer service alone *)

Providers == {"STRIPE", "ADYEN"}

\* Everything but the tokenizer's calls and the count of generated UUIDs.
nonTokenizerVars ==
  <<status, paymentLink, paymentResult, errorMessage, formDisabled,
    formTouched, formVars, searchVars, routeVars, lookups, submitVars, sent,
    keyLog, wellFormed, nSubmit, nLookup, last, lastInput, invokedWith,
    validatorVars>>

\* createToken(psp), up to the return of the promise: the timer is set.
CallCreateToken(psp) ==
  /\ Len(tokenCalls) < MaxTokenCalls
  /\ tokenCalls' = Append(tokenCalls, psp)
  /\ tokenResults' = Append(tokenResults, NULL)
  /\ UNCHANGED <<uuidCount, nonTokenizerVars>>

\* A timer that fires for one provider only.
TimerFires_StripeOnly(k) ==
  /\ k <= Len(tokenCalls)
  /\ tokenCalls[k] = "STRIPE"
  /\ tokenResults[k] = NULL
  /\ uuidCount' = uuidCount + 1
  /\ tokenResults' =
       [tokenResults EXCEPT
          ![k] = [state |-> "resolved",
                  value |-> CreateToken(tokenCalls[k], uuidCount + 1)]]
  /\ UNCHANGED <<tokenCalls, nonTokenizerVars>>

\* The setTimeout callback of call k: the token is built and the promise is
\* resolved with it.
TimerFires(k) ==
  /\ k <= Len(tokenCalls)
  /\ tokenResults[k] = NULL
  /\ uuidCount' = uuidCount + 1
  /\ tokenResults' =
       [tokenResults EXCEPT
          ![k] = [state |-> "resolved",
                  value |-> CreateToken(tokenCalls[k], uuidCount + 1)]]
  /\ UNCHANGED <<tokenCalls, nonTokenizerVars>>

NextTokenizer ==
  \/ \E psp \in Providers : CallCreateToken(psp)
  \/ \E k \in 1..MaxTokenCalls : TimerFires(k)

\* A timer that was set fires: the event loop runs every due callback.
SpecTokenizer ==
  /\ Init
  /\ [][NextTokenizer]_vars
  /\ \A k \in 1..MaxTokenCalls : WF_vars(TimerFires(k))

(* ------------------------------------------------------- the payment form *)

\* The characters typed into an input element: two digits and a letter.
InputChars == {"1", "2", "a"}

\* Every string of at most MaxInputLen typed characters.
TypedInputs == UNION {[1..n -> InputChars] : n \in 0..MaxInputLen}

\* Strings pasted whole: 18 digits, a formatted 16-digit card number, a
\* 15-digit card number, a 16-digit one with dashes and a letter, a formatted
\* expiry date.
PastedInputs ==
  { <<"1","2","3","4","5","6","7","8","9","0","1","2","3","4","5","6","7","8">>,
    <<"4","5","3","2"," ","0","1","5","1"," ","1","2","8","3"," ","0","3","6","6">>,
    <<"3","7","8","2","8","2","2","4","6","3","1","0","0","0","5">>,
    <<"4","5","3","2","-","0","1","5","1","-","1","2","8","3","-","0","3","6","6","x">>,
    <<"1","2"," ","/"," ","2","5">> }

\* input.value of the element an input event comes from.
FieldInputs == TypedInputs \cup PastedInputs

\* The two formatters on their own: each input event is recorded next to the
\* value its formatter wrote.
NextFormatter ==
  \/ ~routed /\ RouteParams(<<>>)
  \/ \E input \in FieldInputs :
       /\ FormatCardNumber(input)
       /\ lastInput' = [target |-> "cardNumber", value |-> input]
  \/ \E input \in FieldInputs :
       /\ FormatExpiryDate(input)
       /\ lastInput' = [target |-> "expiryDate", value |-> input]

SpecFormatter == Init /\ [][NextFormatter]_vars

\* The payment form filled in by pasting and submitted, on a route without a
\* link id.
NextForm ==
  \/ ~routed /\ RouteParams(<<>>)
  \/ \E input \in PastedInputs : FormatCardNumber(input) /\ UNCHANGED lastInput
  \/ \E input \in PastedInputs : FormatExpiryDate(input) /\ UNCHANGED lastInput
  \/ \E v \in CvcInputs : TypeCvc(v)
  \/ OnSubmit /\ UNCHANGED invokedWith
  \/ TokenResolved /\ UNCHANGED invokedWith

SpecForm == Init /\ [][NextForm]_vars

(* ------------------------------------------------------ the search screen *)

\* Navigation, link lookup and the search field, without the payment form.
NextSearch ==
  \/ \E id \in LinkIds \cup {<<>>} : RouteParams(id)
  \/ \E id \in LinkIds : LookupSucceeds(id)
  \/ \E id \in LinkIds : LookupFails(id)
  \/ \E v \in SearchInputs : TypeSearch(v)
  \/ Search

SpecSearch == Init /\ [][NextSearch]_vars

(* ------------------------------------------- the Luhn validator on its own *)

\* Everything of the checkout component: untouched while a control that is not
\* part of its form is validated.
checkoutVars ==
  <<orchestratorVars, formVars, searchVars, lastInput, invokedWith>>

\* The characters a validated string is made of: the digits, whitespace and a
\* letter.
ValueChars == Digits \cup Whitespace \cup {"a"}

\* validator(control): `!control.value` holds for null and for '', and the
\* validator returns null for both.
ValidateControl(c) == IF c.null THEN NULL ELSE LuhnValidator(c.value)

\* One more character is typed into the control; the validator runs on the
\* new value.
AppendChar(ch) ==
  /\ Len(control.value) < MaxValueLen
  /\ control' = [null |-> FALSE, value |-> Append(control.value, ch)]
  /\ errors' = ValidateControl(control')
  /\ UNCHANGED <<checkoutVars, tokenizerVars>>

\* control.setValue(null); the validator runs on the new value.
SetValueNull ==
  /\ ~control.null
  /\ control' = [null |-> TRUE, value |-> <<>>]
  /\ errors' = ValidateControl(control')
  /\ UNCHANGED <<checkoutVars, tokenizerVars>>

NextValidator ==
  \/ \E ch \in ValueChars : AppendChar(ch)
  \/ SetValueNull

SpecValidator == Init /\ [][NextValidator]_vars

(* ------------------------------- submission attempts and route changes *)

\* this.paymentLink()?.id, with <<>> for undefined.
PaymentLinkId == IF paymentLink = NULL THEN <<>> ELSE paymentLink.id

\* onSubmit(), up to the await; a call that passes the guard is recorded with
\* the link held by paymentLink when it was made.
OnSubmitOnLink ==
  /\ OnSubmit
  /\ invokedWith' = IF tokenizing' > tokenizing
                    THEN [invokedWith EXCEPT ![PaymentLinkId] = @ + 1]
                    ELSE invokedWith

\* The continuation of one of the suspended onSubmit() calls, one that was
\* made while paymentLink held the link `id` (no link for <<>>).
TokenResolvedFor(id) ==
  /\ invokedWith[id] > 0
  /\ TokenResolved
  /\ invokedWith' = [invokedWith EXCEPT ![id] = @ - 1]

\* Submissions of a valid form interleaved with route changes, lookups and
\* gateway answers.
NextAttempts ==
  \/ \E id \in LinkIds \cup {<<>>} : RouteParams(id)
  \/ \E id \in LinkIds : LookupSucceeds(id)
  \/ \E id \in LinkIds : LookupFails(id)
  \/ FormatCardNumber(ValidCard) /\ UNCHANGED lastInput
  \/ \E v \in ExpiryInputs : FormatExpiryDate(v) /\ UNCHANGED lastInput
  \/ \E v \in CvcInputs : TypeCvc(v)
  \/ OnSubmitOnLink
  \/ \E id \in LinkIds \cup {<<>>} : TokenResolvedFor(id)
  \/ \E c \in submitted, st \in ResultStatuses : PaymentResponds(c, st)
  \/ \E c \in submitted, e \in ErrorBodies : PaymentErrors(c, e)
  \/ Retry

SpecAttempts == Init /\ [][NextAttempts]_vars

(* --------------------------------------- every request is answered *)

\* The gateway answers a link lookup: getPaymentLink's observable emits or
\* errors.
LookupAnswered(id) == LookupSucceeds(id) \/ LookupFails(id)

\* The promise of a pending createToken call resolves (its timer fires) and
\* the suspended onSubmit() continues.
TokenizerAnswers == TokenResolved /\ UNCHANGED invokedWith

\* The gateway answers a payment request: processPayment's observable emits
\* or errors.
PaymentAnswered ==
  \E c \in submitted :
    \/ \E st \in ResultStatuses : PaymentResponds(c, st)
    \/ \E e \in ErrorBodies : PaymentErrors(c, e)

\* The checkout under the assumption that no request stays unanswered.
SpecAnswered ==
  /\ Spec
  /\ \A id \in LinkIds : WF_vars(LookupAnswered(id))
  /\ WF_vars(TokenizerAnswers)
  /\ WF_vars(PaymentAnswered)

(* ----------------------------------------------------------------- claims *)

\* C1: in every reachable state, status = READY_TO_PAY implies that a
\* PaymentLink is loaded.  retry() sets READY_TO_PAY without looking at
\* paymentLink, so the code does not keep this.
C1_ReadyImpliesLink == status = "READY_TO_PAY" => paymentLink # NULL

\* C2: in every reachable state, status = READY_TO_PAY implies that no
\* PaymentResult is stored.  A successful lookup sets READY_TO_PAY without
\* clearing paymentResult, so the code does not keep this.
C2_ReadyImpliesNoResult == status = "READY_TO_PAY" => paymentResult = NULL

\* C3: in every reachable state, status COMPLETED or FAILED implies that a
\* PaymentResult is stored whose own status is COMPLETED exactly when the
\* checkout status is COMPLETED.
C3_TerminalHasResult ==
  status \in {"COMPLETED", "FAILED"} =>
    /\ paymentResult # NULL
    /\ (paymentResult.status = "COMPLETED") <=> (status = "COMPLETED")

\* A business decline was received and stored.
C3_Witness ==
  /\ status = "FAILED"
  /\ last.op = "response"
  /\ paymentResult # NULL
  /\ paymentResult.status = "FAILED"

\* C4: in every reachable state in which status is COMPLETED, FAILED or
\* ERROR_RETRYABLE the payment form is enabled.
C4_FormEnabledAfterExit ==
  status \in {"COMPLETED", "FAILED", "ERROR_RETRYABLE"} => ~formDisabled

\* A submission that disabled the form has ended with a transport error.
C4_Witness ==
  /\ status = "ERROR_RETRYABLE"
  /\ last.op = "httpError"
  /\ nSubmit > 0
  /\ ~formDisabled

\* C5: no reachable state has two onSubmit() attempts in flight.  A disabled
\* form is not `invalid`, so a second onSubmit() passes the guard while the
\* first is in flight.
C5_AtMostOneInFlight == InFlight <= 1

\* C6: when every onSubmit() was called with a valid form and a loaded link
\* and the gateway answers a submission with a result, the checkout status
\* becomes the result's status, exactly that result is stored and
\* errorMessage is null.
C6_ResponseOutcome ==
  [][\A c \in submitted, st \in ResultStatuses :
       (wellFormed /\ PaymentResponds(c, st)) =>
         /\ status' = st
         /\ paymentResult' = ResultOf(c, st)
         /\ errorMessage' = NULL]_vars

\* C7: when every onSubmit() was called with a valid form and a loaded link
\* and the gateway's submit operation fails with a transport error, the
\* checkout ends in ERROR_RETRYABLE with the form enabled, no PaymentResult
\* stored, and errorMessage the server's message when that is a string and
\* the generic message otherwise.
C7_TransportErrorOutcome ==
  [][\A c \in submitted, e \in ErrorBodies :
       (wellFormed /\ PaymentErrors(c, e)) =>
         /\ status' = "ERROR_RETRYABLE"
         /\ ~formDisabled'
         /\ paymentResult' = NULL
         /\ errorMessage' =
              [text |-> IF e.kind = "object" /\ e.messageType = "string"
                        THEN e.message ELSE GenericPaymentMessage]]_vars

\* C8: whatever the state and whether the form is enabled or disabled, an
\* onSubmit() whose field values fail local validation leaves status,
\* paymentLink, paymentResult and errorMessage unchanged and starts no
\* tokenization and no gateway call.
C8_InvalidSubmitRejected ==
  [][(OnSubmit /\ ~FieldsValid) =>
       UNCHANGED <<status, paymentLink, paymentResult, errorMessage,
                   tokenizing, submitted, sent>>]_vars

\* C9: retry() called in status FAILED or ERROR_RETRYABLE leaves status
\* READY_TO_PAY, paymentResult null and errorMessage null.
C9_RetryResets ==
  (last.op = "retry" /\ last.from \in {"FAILED", "ERROR_RETRYABLE"}) =>
    /\ status = "READY_TO_PAY"
    /\ paymentResult = NULL
    /\ errorMessage = NULL

\* retry() has been called after a business decline.
C9_Witness == last.op = "retry" /\ last.from = "FAILED"

\* C10: every attempt that has passed tokenization has generated exactly one
\* idempotency key, every processPayment call carries the key of its attempt,
\* and the keys of any two calls differ.
C10_KeysDistinct ==
  /\ Len(keyLog) = nSubmit - tokenizing
  /\ \A i \in 1..Len(sent) :
       \E j \in 1..Len(keyLog) : sent[i].request.idempotencyKey = keyLog[j]
  /\ \A i, j \in 1..Len(sent) :
       i # j => sent[i].request.idempotencyKey # sent[j].request.idempotencyKey
  /\ \A i, j \in 1..Len(keyLog) : i # j => keyLog[i] # keyLog[j]

\* Two attempts have each made their processPayment call and both have ended,
\* the second one after a retry().
C10_Witness ==
  /\ Len(sent) = 2
  /\ InFlight = 0
  /\ status \in {"FAILED", "ERROR_RETRYABLE"}
  /\ last.op \in {"response", "httpError"}

\* C11: loadLink(id) sets status to LOADING_LINK at once and leaves the
\* lookup outstanding; when a lookup for id succeeds the returned link is
\* stored and status becomes READY_TO_PAY; when it fails status becomes
\* LINK_NOT_FOUND and the search field holds exactly id.
C11_LoadLinkOutcome ==
  [][\A id \in LinkIds :
       /\ RouteParams(id) =>
            (status' = "LOADING_LINK" /\ lookups'[id] = lookups[id] + 1)
       /\ LookupSucceeds(id) =>
            (paymentLink' = LinkOf(id) /\ status' = "READY_TO_PAY")
       /\ LookupFails(id) =>
            (status' = "LINK_NOT_FOUND" /\ searchValue' = id)]_vars

\* A lookup has failed and the search field holds the attempted id.
C11_Witness ==
  /\ last.op = "lookupFail"
  /\ status = "LINK_NOT_FOUND"
  /\ searchValue \in LinkIds

\* C12: once the route has moved on to another id, the response of a lookup
\* for an earlier id (success or failure) changes neither status nor
\* paymentLink nor the search field.  loadLink never drops the earlier
\* subscription, so the code does not keep this.
C12_StaleLookupIgnored ==
  [][\A id \in LinkIds :
       (id # routeId /\ (LookupSucceeds(id) \/ LookupFails(id))) =>
         UNCHANGED <<status, paymentLink, searchValue>>]_vars

\* C13: once status is COMPLETED, only a new navigation (a route-parameter
\* change that calls loadLink, and the responses of its lookups) changes
\* status.  retry() and onSubmit() have no guard on status, so the code does
\* not keep this.
C13_CompletedIsTerminal ==
  [][(status = "COMPLETED" /\ status' # "COMPLETED") =>
       \E id \in LinkIds :
         RouteParams(id) \/ LookupSucceeds(id) \/ LookupFails(id)]_vars

\* C14: when onSubmit() reaches the link-id check after tokenization and no
\* PaymentLink is loaded, no processPayment call is made, status becomes
\* ERROR_RETRYABLE, errorMessage is the fixed generic preparation message and
\* the payment form is enabled.
C14_MissingLinkOutcome ==
  [][(TokenResolved /\ paymentLink = NULL) =>
       /\ sent' = sent
       /\ submitted' = submitted
       /\ status' = "ERROR_RETRYABLE"
       /\ errorMessage' = [text |-> GenericPreparationMessage]
       /\ ~formDisabled']_vars

\* An attempt made without a loaded link has ended in its catch block.
C14_Witness ==
  /\ last.op = "tokenResolved"
  /\ paymentLink = NULL
  /\ status = "ERROR_RETRYABLE"
  /\ sent = <<>>
  /\ nSubmit > 0

\* The card numbers, expiry dates and security codes the form can hold.
C15_CardData ==
  [cardNumber : {<<>>} \cup {FormatCardNumberValue(v) : v \in CardInputs},
   expiryDate : {<<>>} \cup {FormatExpiryDateValue(v) : v \in ExpiryInputs},
   cvc : {<<>>} \cup CvcInputs]

\* C15: every request passed to processPayment consists of the card token,
\* the idempotency key, the provider selector and the cardholder-name
\* metadata only, and the request built from a token, a key and the form
\* values is the same whatever card number, expiry date and CVC the form
\* holds.
C15_NoRawCardData ==
  /\ \A i \in 1..Len(sent) :
       /\ DOMAIN sent[i].request =
            {"cardToken", "idempotencyKey", "pspProvider", "metadata"}
       /\ DOMAIN sent[i].request.metadata = {"cardHolder"}
       /\ sent[i].request.cardToken \in
            {CreateToken("STRIPE", k) : k \in 1..uuidCount}
       /\ sent[i].request.pspProvider = "STRIPE"
       /\ sent[i].request.metadata.cardHolder \in CardHolderInputs
  /\ \A d \in C15_CardData :
       LET raw == [cardNumber |-> d.cardNumber, expiryDate |-> d.expiryDate,
                   cvc |-> d.cvc, cardHolder |-> cardHolder]
       IN PaymentRequest(CreateToken("STRIPE", uuidCount + 1),
                         IdempotencyKey(uuidCount + 2))
            = RequestOf(CreateToken("STRIPE", uuidCount + 1),
                        IdempotencyKey(uuidCount + 2), raw)

\* A request has been sent while the form held a complete card.
C15_Witness ==
  /\ last.op = "tokenResolved"
  /\ Len(sent) > 0
  /\ cardNumber = FormatCardNumberValue(ValidCard)
  /\ cvc # <<>>

\* The messages the gateway may send in an error body.
C16_ServerMessages ==
  {e.message : e \in {b \in ErrorBodies : b.kind = "object"}}

ControlHoldsString == ~control.null

\* The control's string without its whitespace characters.
ControlStripped == SelectSeq(control.value, LAMBDA ch : ch \notin Whitespace)

\* s is a non-empty string of digits.
IsDigitString(s) == s # <<>> /\ \A i \in 1..Len(s) : s[i] \in Digits

\* The checksum of the digit string s: its digits taken right to left, the
\* one at position p (0-indexed from the right) doubled when p is odd and
\* reduced by 9 when the doubled value exceeds 9.
RECURSIVE ChecksumFrom(_, _)
ChecksumFrom(s, p) ==
  IF p >= Len(s) THEN 0
  ELSE LET d == DigitVal(s[Len(s) - p])
           w == IF p % 2 = 1 THEN (IF 2 * d > 9 THEN 2 * d - 9 ELSE 2 * d)
                ELSE d
       IN w + ChecksumFrom(s, p + 1)

\* C17: for every non-empty string of digits the Luhn validator returns no
\* error if and only if the checksum of the string is divisible by 10.
C17_LuhnIffChecksum ==
  (ControlHoldsString /\ IsDigitString(control.value)) =>
    ((errors = NULL) <=> (ChecksumFrom(control.value, 0) % 10 = 0))

\* The validator has accepted a digit string whose doubled digit exceeds 9.
C17_Witness ==
  /\ ControlHoldsString
  /\ control.value = <<"5", "9">>
  /\ errors = NULL

\* C18: for every input that is empty once whitespace is stripped (null, the
\* empty string, a string of whitespace only) the Luhn validator returns no
\* error.  A string of whitespace only is not falsy, and stripped it fails
\* the digits test, so the code returns an error for it.
C18_BlankIsValid ==
  (control.null \/ ControlStripped = <<>>) => errors = NULL

\* C19: for every string that is a non-empty digit string once its
\* whitespace is removed, the validator returns what it returns for that
\* digit string.
C19_WhitespaceIgnored ==
  (ControlHoldsString /\ IsDigitString(ControlStripped)) =>
    errors = LuhnValidator(ControlStripped)

\* The validator has accepted a valid digit string with a space inside.
C19_Witness ==
  /\ ControlHoldsString
  /\ control.value = <<"5", " ", "9">>
  /\ errors = NULL

\* What the validator returns for a digit string whose checksum is wrong.
FailedChecksumErrors == LuhnValidator(<<"1">>)

\* C20: for every input that, whitespace stripped, contains a non-digit
\* character the validator returns an error, and that error differs from the
\* one returned for a digit string whose checksum is wrong.  Both returns of
\* the code are { luhn: true }, so the code does not keep this.
C20_FormatErrorDistinct ==
  (ControlHoldsString /\ \E i \in 1..Len(ControlStripped) :
                            ControlStripped[i] \notin Digits) =>
    (errors # NULL /\ errors # FailedChecksumErrors)

\* n thousandths rounded to hundredths, ties away from zero.
HalfAwayFromZero(n) ==
  IF n >= 0 THEN (n + 5) \div 10 ELSE 0 - ((5 - n) \div 10)

\* C26: in every reachable state totalAmount is 0 when no link is loaded and
\* otherwise the sum of the link's base amount and total fees rounded to the
\* nearest cent, ties away from zero (100 and 5.555 give 105.56).  The sum
\* and the product are computed on doubles, and for 1 and 0.005 the product
\* falls just below the tie, so the code gives 1.00 where the claim gives
\* 1.01.
C26_TotalAmountRounded ==
  TotalAmount =
    IF paymentLink = NULL THEN 0
    ELSE HalfAwayFromZero(paymentLink.amountUsd
                            + paymentLink.feePreview.totalFeesUsd)

\* C29: paymentLink changes only in the step of a successful lookup, and is
\* then exactly the link the gateway returned for that lookup.
C29_LinkChangesOnlyOnLookup ==
  [][paymentLink' # paymentLink =>
       \E id \in LinkIds : LookupSucceeds(id) /\ paymentLink' = LinkOf(id)]_vars

\* A second lookup has replaced the link loaded first, and attempts were made
\* on the way.
C29_Witness ==
  /\ last.op = "lookupOk"
  /\ paymentLink = LinkOf(IdB)
  /\ nLookup = 2
  /\ nSubmit > 0

\* C30: an onSubmit() call made while status is not READY_TO_PAY does not
\* change status and starts no tokenization and no gateway call.  onSubmit()
\* never looks at status, so the code does not keep this.
C30_SubmitOnlyWhenReady ==
  [][(OnSubmit /\ status # "READY_TO_PAY") =>
       UNCHANGED <<status, tokenizing, submitted, sent>>]_vars

\* C22: search() leaves status, paymentLink, paymentResult and errorMessage
\* unchanged; when the search field fails validation it marks the field
\* touched and does not navigate; when the field passes validation it
\* navigates once, to the trimmed value.  A value of five blanks passes
\* validation and trims to the empty string, for which the code neither
\* navigates nor marks the field.
C22_SearchOutcome ==
  [][Search =>
       /\ UNCHANGED <<status, paymentLink, paymentResult, errorMessage>>
       /\ IF SearchControlValid(searchValue)
          THEN navTo' = Append(navTo, Trim(searchValue))
          ELSE searchTouched' /\ navTo' = navTo]_vars

\* The digits of s, in order.
DigitsOf(s) == SelectSeq(s, LAMBDA ch : ch \in Digits)

\* The first n characters of s.
FirstN(s, n) == IF Len(s) <= n THEN s ELSE SubSeq(s, 1, n)

\* C21: an onSubmit() on an enabled form gets past local validation only if
\* the card number field holds between 16 and 19 digits.  minLength(16) and
\* maxLength(19) count the characters of the field, blanks included, so a
\* Luhn-valid number of 15 digits formatted to 18 characters gets past.
C21_CardNumberDigitCount ==
  [][(OnSubmit /\ ~formDisabled /\ status' = "PROCESSING_PAYMENT") =>
       (Len(DigitsOf(cardNumber)) >= 16 /\ Len(DigitsOf(cardNumber)) <= 19)]_vars

\* C23: for every input string the card-number formatter writes the first 16
\* digits of the input in their order, in groups of 4 separated by exactly
\* one blank, with no leading or trailing blank.
C23_CardNumberFormat ==
  lastInput.target = "cardNumber" =>
    /\ SelectSeq(cardNumber, LAMBDA ch : ch # " ")
         = FirstN(DigitsOf(lastInput.value), 16)
    /\ \A p \in 1..Len(cardNumber) : (cardNumber[p] = " ") <=> (p % 5 = 0)
    /\ \/ cardNumber = <<>>
       \/ cardNumber[1] # " " /\ cardNumber[Len(cardNumber)] # " "

\* An input of 18 digits has been formatted.
C23_Witness ==
  /\ lastInput.target = "cardNumber"
  /\ Len(lastInput.value) = 18
  /\ cardNumber = <<"1","2","3","4"," ","5","6","7","8"," ",
                    "9","0","1","2"," ","3","4","5","6">>

\* C24: for every input string the expiry formatter writes d, the first 4
\* digits of the input, when d has at most 2 digits, and otherwise the first
\* two digits of d, the separator " / " and the rest of d.
C24_ExpiryFormat ==
  lastInput.target = "expiryDate" =>
    LET d == FirstN(DigitsOf(lastInput.value), 4)
    IN expiryDate =
         IF Len(d) <= 2 THEN d
         ELSE <<d[1], d[2], " ", "/", " ">> \o SubSeq(d, 3, Len(d))

\* An input of 18 digits has been cut to four and formatted.
C24_Witness ==
  /\ lastInput.target = "expiryDate"
  /\ Len(lastInput.value) = 18
  /\ expiryDate = <<"1", "2", " ", "/", " ", "3", "4">>

\* C25: the value of the card-number field and the value of the expiry
\* field, each written by its formatter, are left as they are when the
\* formatter is applied to them again.
C25_FormattersIdempotent ==
  /\ FormatCardNumberValue(cardNumber) = cardNumber
  /\ FormatExpiryDateValue(expiryDate) = expiryDate

\* Both fields hold a formatted value with separators.
C25_Witness ==
  /\ cardNumber = <<"4","5","3","2"," ","0","1","5","1"," ",
                    "1","2","8","3"," ","0","3","6","6">>
  /\ expiryDate = <<"1", "2", " ", "/", " ", "2", "5">>

\* C27: every createToken call, for either provider, is eventually settled,
\* and a settled call is resolved with a token, never rejected.
C27_CreateTokenResolves ==
  /\ [](\A k \in 1..Len(tokenResults) :
          tokenResults[k] = NULL \/ tokenResults[k].state = "resolved")
  /\ \A k \in 1..MaxTokenCalls :
       (Len(tokenCalls) >= k) ~>
         (/\ Len(tokenResults) >= k
          /\ tokenResults[k] # NULL
          /\ tokenResults[k].state = "resolved")

\* Calls for both providers have been made and all are resolved.
C27_Witness ==
  /\ Len(tokenCalls) = MaxTokenCalls
  /\ {tokenCalls[k] : k \in 1..Len(tokenCalls)} = Providers
  /\ \A k \in 1..Len(tokenCalls) : tokenResults[k] # NULL

\* C28: the tokens of any two createToken calls differ, and each token is
\* made of the prefix tok_mock_, the lower-cased provider of its call and an
\* identifier generated for it alone.
C28_TokensDistinct ==
  LET settled == {k \in 1..Len(tokenResults) : tokenResults[k] # NULL}
  IN /\ \A i, j \in settled :
          i # j => tokenResults[i].value # tokenResults[j].value
     /\ \A k \in settled :
          LET token == tokenResults[k].value
          IN /\ token.prefix = "tok_mock_"
             /\ token.psp = (IF tokenCalls[k] = "STRIPE" THEN "stripe"
                                                        ELSE "adyen")
             /\ token.uuid \in 1..uuidCount
             /\ \A j \in settled : j # k => tokenResults[j].value.uuid # token.uuid

\* Two calls for the same provider were outstanding together (the later one
\* was resolved first) and both are resolved.
C28_Witness ==
  /\ Len(tokenCalls) >= 2
  /\ tokenCalls[1] = tokenCalls[2]
  /\ tokenResults[1] # NULL
  /\ tokenResults[2] # NULL
  /\ tokenResults[2].value.uuid < tokenResults[1].value.uuid

\* C31: whenever status is PROCESSING_PAYMENT the payment form is disabled,
\* whatever the interleaving of submissions, retries, route changes and
\* tokenizer or gateway responses.
C31_ProcessingImpliesDisabled ==
  status = "PROCESSING_PAYMENT" => formDisabled

\* A second attempt is being processed after the first one was answered or
\* failed, with a payment of it still awaiting the gateway.
C31_Witness ==
  /\ status = "PROCESSING_PAYMENT"
  /\ formDisabled
  /\ nSubmit = 2
  /\ tokenizing + Cardinality(submitted) = 1
  /\ submitted # {}

\* C32: an attempt starts its tokenization in a step that has set status to
\* PROCESSING_PAYMENT, disabled the form and cleared errorMessage; a payment
\* is sent only by the continuation of a resolved createToken call of an
\* outstanding attempt, and it carries the token of that call, made for
\* STRIPE, the key generated in that continuation, and STRIPE as provider.
C32_AttemptStepsOrdered ==
  [][/\ tokenizing' > tokenizing =>
          /\ status' = "PROCESSING_PAYMENT"
          /\ formDisabled'
          /\ errorMessage' = NULL
          /\ sent' = sent
     /\ sent' # sent =>
          /\ tokenizing > 0
          /\ tokenizing' = tokenizing - 1
          /\ Len(sent') = Len(sent) + 1
          /\ SubSeq(sent', 1, Len(sent)) = sent
          /\ uuidCount' = uuidCount + 2
          /\ LET request == sent'[Len(sent')].request
             IN /\ request.cardToken = CreateToken("STRIPE", uuidCount + 1)
                /\ request.cardToken.psp = "stripe"
                /\ request.idempotencyKey = IdempotencyKey(uuidCount + 2)
                /\ request.pspProvider = "STRIPE"]_vars

\* Two attempts were outstanding together and both payments have been sent.
C32_Witness ==
  /\ Len(sent) = 2
  /\ tokenizing = 0
  /\ last.op = "tokenResolved"
  /\ Cardinality(submitted) = 2

\* C33: status is INITIALIZING exactly until the first route-parameter
\* emission is handled; that emission moves status to LOADING_LINK and starts
\* one lookup when it carries a link id, and to AWAITING_INPUT with no lookup
\* when it carries none; no step ever sets status to INITIALIZING.
C33_InitializingOnlyInitially ==
  [][/\ status' = "INITIALIZING" => status = "INITIALIZING" /\ ~routed'
     /\ status = "INITIALIZING" => ~routed
     /\ (~routed /\ routed') =>
          /\ status = "INITIALIZING"
          /\ IF routeId' # <<>>
             THEN /\ status' = "LOADING_LINK"
                  /\ nLookup' = nLookup + 1
                  /\ lookups'[routeId'] = lookups[routeId'] + 1
             ELSE /\ status' = "AWAITING_INPUT"
                  /\ nLookup' = nLookup
                  /\ lookups' = lookups]_vars

\* The first emission carried a link id and its lookup is outstanding.
C33_Witness ==
  /\ routed
  /\ last.op = "route"
  /\ status = "LOADING_LINK"
  /\ nLookup = 1
  /\ lookups[routeId] = 1
  /\ paymentLink = NULL

\* C36: errorMessage is set only while status is ERROR_RETRYABLE.
C36_ErrorMessageOnlyWhenRetryable ==
  errorMessage # NULL => status = "ERROR_RETRYABLE"

\* C34: a payment sent by a submission attempt that was started while a link
\* was loaded is addressed to that link, the one paymentLink held when
\* onSubmit() was called, whatever was loaded during the tokenization.
C34_SubmitsToLinkAtInvocation ==
  [][\A id \in LinkIds :
       (invokedWith'[id] < invokedWith[id] /\ sent' # sent)
         => sent'[Len(sent')].linkId = id]_vars

\* C35: when every lookup, tokenizer call and payment request is eventually
\* answered, a state with status LOADING_LINK is eventually followed by one
\* with READY_TO_PAY or LINK_NOT_FOUND, and a state with status
\* PROCESSING_PAYMENT by one with COMPLETED, FAILED or ERROR_RETRYABLE.
C35_TransientStatusesEnd ==
  /\ (status = "LOADING_LINK")
       ~> (status \in {"READY_TO_PAY", "LINK_NOT_FOUND"})
  /\ (status = "PROCESSING_PAYMENT")
       ~> (status \in {"COMPLETED", "FAILED", "ERROR_RETRYABLE"})

\* A payment was declined after two lookups, and nothing is outstanding.
C35_Witness ==
  /\ status = "FAILED"
  /\ last.op = "response"
  /\ nLookup = 2
  /\ InFlight = 0
  /\ \A id \in LinkIds : lookups[id] = 0

\* C37: for every digit string the Luhn validator accepts, the string that
\* differs from it in the digit at one position is rejected, for every
\* position and every other digit.
C37_SingleDigitErrorDetected ==
  (ControlHoldsString /\ IsDigitString(control.value) /\ errors = NULL) =>
    \A i \in 1..Len(control.value) :
      \A d \in Digits \ {control.value[i]} :
        LuhnValidator([control.value EXCEPT ![i] = d]) # NULL

\* The validator has accepted a three-digit string with a doubled digit that
\* exceeds 9.
C37_Witness ==
  /\ ControlHoldsString
  /\ control.value = <<"0", "5", "9">>
  /\ errors = NULL

====
